---- MODULE Spec2Model ----
(***************************************************************************)
(* The crossword CSP solver of src/generar.py (class CreadorCrucigrama):   *)
(* node consistency, revisar, AC-3, inference and the backtracking search, *)
(* as a state machine over the Domain Store self.dominios.                 *)
(*                                                                         *)
(* Letter indices are 0-based as in the source; a word is a sequence of    *)
(* letters, so the letter at source index k of w is w[k + 1].              *)
(* Iteration over a Python set has no defined order: wherever the source   *)
(* iterates a set, the model takes every order.                            *)
(***************************************************************************)
EXTENDS Naturals, Sequences, FiniteSets

(***************************************************************************)
(* Bounds of the model.                                                    *)
(***************************************************************************)
\* the largest vocabulary (number of words) a puzzle is given
MaxVocab == 3

\* the words a vocabulary is drawn from: lengths 2 and 3 over two letters
Universo ==
  { <<"a", "b">>, <<"b", "a">>, <<"a", "a", "b">>, <<"b", "b", "a">> }

Vocabularios == { W \in SUBSET Universo : Cardinality(W) <= MaxVocab }

(***************************************************************************)
(* Puzzle Structure (module crucigrama, imported by the source).           *)
(***************************************************************************)
Var(i, j, direccion, longitud) ==
  [i |-> i, j |-> j, direccion |-> direccion, longitud |-> longitud]

\* the cell of the k-th letter of a variable
Celda(v, k) ==
  << v.i + (IF v.direccion = "ABAJO" THEN k ELSE 0),
     v.j + (IF v.direccion = "DERECHA" THEN k ELSE 0) >>

None == <<>>

\* the overlap record of an ordered pair: <<index in v1, index in v2>> or None
CalcularSolapamiento(v1, v2) ==
  LET S == { p \in (0 .. v1.longitud - 1) \X (0 .. v2.longitud - 1) :
               Celda(v1, p[1]) = Celda(v2, p[2]) }
  IN  IF v1 = v2 \/ S = {} THEN None ELSE CHOOSE p \in S : TRUE


\* one across slot of length 3
UnaVariable == { Var(0, 0, "DERECHA", 3) }

\* an across slot of length 2 crossed at its last cell by a down slot of length 3
DosCruzadas == { Var(0, 0, "DERECHA", 2), Var(0, 1, "ABAJO", 3) }

\* a chain: across (2), down (3), across (2); the down slot has two neighbours
Cadena ==
  { Var(0, 0, "DERECHA", 2), Var(0, 1, "ABAJO", 3), Var(2, 1, "DERECHA", 2) }

\* a ring of four slots of length 3 around a blocked centre
Anillo ==
  { Var(0, 0, "DERECHA", 3), Var(2, 0, "DERECHA", 3),
    Var(0, 0, "ABAJO", 3), Var(0, 2, "ABAJO", 3) }

Estructuras == { UnaVariable, DosCruzadas, Cadena, Anillo }

\* crucigrama.solapamientos, computed once when the structure is built
solapamientos ==
  [p \in (UNION Estructuras) \X (UNION Estructuras) |->
     CalcularSolapamiento(p[1], p[2])]

Solapamiento(v1, v2) == solapamientos[<< v1, v2 >>]

\* crucigrama.vecinos(v) in a structure with the variables vs
CalcularVecinos(vs, v) == { w \in vs \ {v} : Solapamiento(w, v) # None }

\* the neighbours of every variable of every structure, computed once
vecindades ==
  [vs \in Estructuras |-> [v \in vs |-> CalcularVecinos(vs, v)]]

\* the structures on which the Domain Store is given any contents
EstructurasAlmacen == { UnaVariable, DosCruzadas, Cadena }

(***************************************************************************)
(* Order of iteration.                                                     *)
(***************************************************************************)
\* every order in which the elements of a set can be iterated
RECURSIVE Ordenes(_)
Ordenes(S) ==
  IF S = {} THEN { <<>> }
  ELSE UNION { { <<x>> \o s : s \in Ordenes(S \ {x}) } : x \in S }

Last(s) == s[Len(s)]

\* a list read at its end without being shortened
SinQuitar(s) == s

\* the list after pop()
Front(s) == SubSeq(s, 1, Len(s) - 1)

(***************************************************************************)
(* State.                                                                  *)
(***************************************************************************)
VARIABLES
  crucigrama,   \* self.crucigrama: [variables, words], never mutated
  dominios,     \* self.dominios: variable -> set of words
  llamada,      \* the method the caller invoked, with its arguments
  pc,           \* position in the running method
  arcs,         \* the pending list of ac3 / the queue of inferencia
  inferences,   \* the mapping inferencia builds
  asignacion,   \* the assignment backtrack was called with / the candidate
  stack,        \* the active backtrack calls, outermost first
  alias,        \* variable -> depth of the frame whose inferences[variable]
                \*   is the very set object self.dominios[variable] (0: none)
  devuelto,     \* what the inner call that just returned gave back
  ret,          \* what the invoked method returned to the caller
  ret_ac3,      \* what the ac3 call inside solve returned
  dom0,         \* the Domain Store when the method was invoked
  antes         \* the Domain Store when the running inferencia was entered

vars ==
  << crucigrama, dominios, llamada, pc, arcs, inferences, asignacion, stack,
     alias, devuelto, ret, ret_ac3, dom0, antes >>

Variables == crucigrama.variables

vecinos(v) == vecindades[Variables][v]

\* the empty mapping (dict())
Vacio == [x \in {} |-> {}]

NadaLlamado == [metodo |-> "-", args |-> <<>>]

(***************************************************************************)
(* Construction.                                                           *)
(***************************************************************************)
Construido(vs, ws) ==
  /\ crucigrama = [variables |-> vs, words |-> ws]
  /\ llamada = NadaLlamado
  /\ pc = "idle"
  /\ arcs = <<>>
  /\ inferences = Vacio
  /\ asignacion = <<>>
  /\ stack = <<>>
  /\ alias = [v \in vs |-> 0]
  /\ devuelto = "-"
  /\ ret = "-"
  /\ ret_ac3 = "-"
  /\ antes = Vacio

\* __init__: every variable starts with a copy of the whole vocabulary
Init ==
  \E vs \in Estructuras, ws \in Vocabularios :
    /\ Construido(vs, ws)
    /\ dominios = [v \in vs |-> ws]
    /\ dom0 = dominios

\* a solver whose Domain Store holds any sets of vocabulary words
InitAlmacen ==
  \E vs \in EstructurasAlmacen, ws \in Vocabularios :
    /\ Construido(vs, ws)
    /\ dominios \in [vs -> SUBSET ws]
    /\ dom0 = dominios

(***************************************************************************)
(* consistencia_nodo and revisar.                                          *)
(***************************************************************************)
\* a length test that also keeps the words that are too short
NodoConsistenteLaxo(D) ==
  [v \in DOMAIN D |-> { palabra \in D[v] : Len(palabra) <= v.longitud }]

\* a filter that builds each domain anew from the whole vocabulary
NodoConsistenteDeVocabulario(D) ==
  [v \in DOMAIN D |->
     { palabra \in crucigrama.words : Len(palabra) = v.longitud }]

\* consistencia_nodo: each domain keeps the words of the variable's length
NodoConsistente(D) ==
  [v \in DOMAIN D |-> { palabra \in D[v] : Len(palabra) = v.longitud }]

\* a test with all() in place of any(): every palabra_y has to match
VeredictosTodas(palabra_x, Dy, i, j) ==
  IF \A palabra_y \in Dy :
       /\ Len(palabra_x) > i
       /\ Len(palabra_y) > j
       /\ palabra_x[i + 1] = palabra_y[j + 1]
    THEN {"conservar"} ELSE {"quitar"}

\* What the test of one palabra_x against dominios[y] can come to:
\* any() stops at the first palabra_y that matches; indexing a word at or
\* beyond its length raises IndexError.
Veredictos(palabra_x, Dy, i, j) ==
  IF Dy = {} THEN {"quitar"}
  ELSE IF Len(palabra_x) <= i THEN {"IndexError"}
  ELSE
    LET cortas == { palabra_y \in Dy : Len(palabra_y) <= j }
        buenas == { palabra_y \in Dy :
                      Len(palabra_y) > j /\ palabra_x[i + 1] = palabra_y[j + 1] }
    IN  (IF buenas # {} THEN {"conservar"} ELSE {})
          \cup (IF cortas # {} THEN {"IndexError"} ELSE {})
          \cup (IF buenas = {} /\ cortas = {} THEN {"quitar"} ELSE {})

\* revisar with the two indices of the overlap exchanged
RevisarIndicesCambiados(D, x, y) ==
  LET solapamiento == Solapamiento(x, y)
      i == solapamiento[2]
      j == solapamiento[1]
      quitables ==
        { palabra_x \in D[x] :
            ~ \E palabra_y \in D[y] :
                /\ Len(palabra_x) > i
                /\ Len(palabra_y) > j
                /\ palabra_x[i + 1] = palabra_y[j + 1] }
  IN  IF solapamiento = None
        THEN { [dom |-> D[x], ret |-> "False"] }
        ELSE { [dom |-> D[x] \ quitables,
                ret |-> IF quitables # {} THEN "True" ELSE "False"] }

\* revisar(x, y) on store D: the outcomes [dom: the new dominios[x],
\* ret: "True" | "False" | "IndexError"] over every iteration order.
Revisar(D, x, y) ==
  LET solapamiento == Solapamiento(x, y)
      i == solapamiento[1]
      j == solapamiento[2]
      V(palabra_x) == Veredictos(palabra_x, D[y], i, j)
      quitables == { palabra_x \in D[x] : "quitar" \in V(palabra_x) }
  IN  IF solapamiento = None
        THEN { [dom |-> D[x], ret |-> "False"] }
        ELSE
          (IF \A palabra_x \in D[x] : V(palabra_x) # {"IndexError"}
             THEN { [dom |-> D[x] \ quitables,
                     ret |-> IF quitables # {} THEN "True" ELSE "False"] }
             ELSE {})
          \cup
          (IF \E palabra_x \in D[x] : "IndexError" \in V(palabra_x)
             THEN { [dom |-> D[x] \ Q, ret |-> "IndexError"] :
                      Q \in SUBSET quitables }
             ELSE {})

(***************************************************************************)
(* Assignments: a dict in insertion order, as a sequence of                *)
(* <<variable, word>> pairs.                                               *)
(***************************************************************************)
Claves(asig) == { asig[k][1] : k \in 1 .. Len(asig) }

Valor(asig, v) ==
  LET k == CHOOSE k \in 1 .. Len(asig) : asig[k][1] = v IN asig[k][2]

asignacion_completa(asig) == Claves(asig) = Variables

\* consistencia without the comparison of crossing letters (lines 165-170)
FallosSinCruces(asig, k) == {}

\* the ways the neighbours of the k-th entry can end consistencia
Fallos(asig, k) ==
  LET var1 == asig[k][1]
      palabra1 == asig[k][2]
  IN  { IF Len(Valor(asig, var2)) <= Solapamiento(var1, var2)[2]
          THEN "IndexError" ELSE "False" :
        var2 \in { w \in vecinos(var1) \cap Claves(asig) :
                     LET i == Solapamiento(var1, w)[1]
                         j == Solapamiento(var1, w)[2]
                     IN  \/ Len(Valor(asig, w)) <= j
                         \/ palabra1[i + 1] # Valor(asig, w)[j + 1] } }

\* a loop that returns True after its first entry passed
ConsistenciaSoloPrimera(asig, k) ==
  IF k > Len(asig) THEN {"True"}
  ELSE IF asig[k][1].longitud # Len(asig[k][2]) THEN {"False"}
  ELSE IF Fallos(asig, k) # {} THEN Fallos(asig, k)
  ELSE {"True"}

RECURSIVE ConsistenciaDesde(_, _)
\* lines 162-171 from the k-th entry of asignacion.items() on
ConsistenciaDesde(asig, k) ==
  IF k > Len(asig) THEN {"True"}
  ELSE IF asig[k][1].longitud # Len(asig[k][2]) THEN {"False"}
  ELSE IF Fallos(asig, k) # {} THEN Fallos(asig, k)
  ELSE ConsistenciaDesde(asig, k + 1)

\* consistencia(asignacion): "True", "False" or "IndexError"
consistencia(asig) == ConsistenciaDesde(asig, 1)

(***************************************************************************)
(* Heuristics.                                                             *)
(***************************************************************************)
conflictos(D, var, asig, palabra) ==
  Cardinality({ vecino \in vecinos(var) :
                  vecino \notin Claves(asig) /\ palabra \in D[vecino] })

\* ordenar_valores_dominio: the sorted lists (sorted is stable over an
\* iteration order of the set)
ordenar_valores_dominio(D, var, asig) ==
  { s \in Ordenes(D[var]) :
      \A a, b \in 1 .. Len(s) :
        a < b => conflictos(D, var, asig, s[a]) <= conflictos(D, var, asig, s[b]) }

\* the sort key without the minus sign: the fewest neighbours first
MenorOIgualSinSigno(D, u, v) ==
  \/ Cardinality(D[u]) < Cardinality(D[v])
  \/ /\ Cardinality(D[u]) = Cardinality(D[v])
     /\ Cardinality(vecinos(u)) <= Cardinality(vecinos(v))

\* the sort key (len(dominios[var]), -len(vecinos(var))), compared as tuples
MenorOIgual(D, u, v) ==
  \/ Cardinality(D[u]) < Cardinality(D[v])
  \/ /\ Cardinality(D[u]) = Cardinality(D[v])
     /\ Cardinality(vecinos(u)) >= Cardinality(vecinos(v))

\* seleccionar_variable_no_asignada: the variables that can come first
seleccionar_variable_no_asignada(D, asig) ==
  LET no_asignadas == Variables \ Claves(asig)
  IN  { v \in no_asignadas : \A u \in no_asignadas : MenorOIgual(D, v, u) }

(***************************************************************************)
(* The caller.                                                             *)
(***************************************************************************)
\* creador.solve()
LlamarSolve ==
  /\ pc = "idle"
  /\ llamada' = [metodo |-> "solve", args |-> <<>>]
  /\ pc' = "consistencia_nodo"
  /\ UNCHANGED << crucigrama, dominios, arcs, inferences, asignacion, stack,
                  alias, devuelto, ret, ret_ac3, dom0, antes >>

\* the direct calls: consistencia_nodo(), revisar(x, y), ac3(),
\* inferencia(_, var), backtrack(dict())
Llamadas ==
  { [metodo |-> "consistencia_nodo", args |-> <<>>],
    [metodo |-> "ac3", args |-> <<>>],
    [metodo |-> "backtrack", args |-> <<>>] }
    \cup { [metodo |-> "revisar", args |-> <<x, y>>] : x, y \in Variables }
    \cup { [metodo |-> "inferencia", args |-> <<var>>] : var \in Variables }

Entrada(metodo) ==
  CASE metodo = "consistencia_nodo" -> "consistencia_nodo"
    [] metodo = "revisar" -> "revisar"
    [] metodo = "ac3" -> "ac3_inicio"
    [] metodo = "inferencia" -> "inferencia_inicio"
    [] metodo = "backtrack" -> "backtrack"

LlamarMetodo ==
  /\ pc = "idle"
  /\ \E ll \in Llamadas :
       /\ llamada' = ll
       /\ pc' = Entrada(ll.metodo)
  /\ UNCHANGED << crucigrama, dominios, arcs, inferences, asignacion, stack,
                  alias, devuelto, ret, ret_ac3, dom0, antes >>

\* an IndexError leaves the invoked method through every frame
Lanza ==
  /\ pc' = "done"
  /\ ret' = "IndexError"

(***************************************************************************)
(* consistencia_nodo (lines 94-101) and a direct revisar (lines 103-125).  *)
(***************************************************************************)
\* a solve() that goes from consistencia_nodo straight to backtrack
ConsistenciaNodoSinAc3 ==
  /\ pc = "consistencia_nodo"
  /\ dominios' = NodoConsistente(dominios)
  /\ IF llamada.metodo = "solve"
       THEN pc' = "backtrack" /\ ret' = ret
       ELSE pc' = "done" /\ ret' = "None"
  /\ UNCHANGED << crucigrama, llamada, arcs, inferences, asignacion, stack,
                  alias, devuelto, ret_ac3, dom0, antes >>

\* lines 100-101, and line 91 when solve() made the call
ConsistenciaNodo ==
  /\ pc = "consistencia_nodo"
  /\ dominios' = NodoConsistente(dominios)
  /\ IF llamada.metodo = "solve"
       THEN pc' = "ac3_inicio" /\ ret' = ret
       ELSE pc' = "done" /\ ret' = "None"
  /\ UNCHANGED << crucigrama, llamada, arcs, inferences, asignacion, stack,
                  alias, devuelto, ret_ac3, dom0, antes >>

RevisarLlamada ==
  /\ pc = "revisar"
  /\ \E r \in Revisar(dominios, llamada.args[1], llamada.args[2]) :
       /\ dominios' = [dominios EXCEPT ![llamada.args[1]] = r.dom]
       /\ ret' = r.ret
  /\ pc' = "done"
  /\ UNCHANGED << crucigrama, llamada, arcs, inferences, asignacion, stack,
                  alias, devuelto, ret_ac3, dom0, antes >>

(***************************************************************************)
(* ac3 (lines 127-148).                                                    *)
(***************************************************************************)
\* the arcs (x, y) of one x, over the orders of vecinos(x)
ArcosDe(x) ==
  { [k \in 1 .. Len(ys) |-> << x, ys[k] >>] : ys \in Ordenes(vecinos(x)) }

\* the lists of the arcs of the variables S, over the orders of S
RECURSIVE ListasDeArcos(_)
ListasDeArcos(S) ==
  IF S = {} THEN { <<>> }
  ELSE UNION { { a \o resto : a \in ArcosDe(x), resto \in ListasDeArcos(S \ {x}) } :
               x \in S }

\* an initial list that holds the arcs of one variable only
ArcosDeUnaSola == UNION { ArcosDe(x) : x \in Variables }

\* line 137: [(x, y) for x in self.dominios for y in vecinos(x)]
ArcosIniciales == ListasDeArcos(Variables)

\* a revision after which no arc is appended
SinReencolar(x, y) == { <<>> }

\* lines 146-147 / 215-216: the arcs (z, x) appended after a revision
Reencolados(x, y) ==
  { [k \in 1 .. Len(zs) |-> << zs[k], x >>] : zs \in Ordenes(vecinos(x) \ {y}) }

\* a loop that never notices an empty domain
NuncaVaciado(dom) == FALSE

\* lines 144 / 212: not self.dominios[x]
Vaciado(dom) == dom = {}

\* self.dominios[x] is changed in place: a frame whose inferences hold
\* that very set object sees the change
Mutar(x, dom) ==
  /\ dominios' = [dominios EXCEPT ![x] = dom]
  /\ stack' = IF alias[x] > 0
                THEN [stack EXCEPT ![alias[x]].inferences[x] = dom]
                ELSE stack

Ac3Inicio ==
  /\ pc = "ac3_inicio"
  /\ arcs' \in ArcosIniciales
  /\ pc' = "ac3"
  /\ UNCHANGED << crucigrama, dominios, llamada, inferences, asignacion, stack,
                  alias, devuelto, ret, ret_ac3, dom0, antes >>

\* ac3 returns: solve drops the value and goes on to backtrack(dict())
Ac3Devuelve(valor) ==
  IF llamada.metodo = "solve"
    THEN pc' = "backtrack" /\ ret_ac3' = valor /\ ret' = ret
    ELSE pc' = "done" /\ ret' = valor /\ ret_ac3' = ret_ac3

\* one turn of the while loop of ac3
Ac3 ==
  /\ pc = "ac3"
  /\ IF arcs = <<>>
       THEN /\ Ac3Devuelve("True")
            /\ UNCHANGED << dominios, stack, arcs >>
       ELSE LET x == Last(arcs)[1]
                y == Last(arcs)[2]
            IN  \E r \in Revisar(dominios, x, y) :
                  /\ Mutar(x, r.dom)
                  /\ CASE r.ret = "IndexError" ->
                            /\ Lanza
                            /\ arcs' = Front(arcs)
                            /\ ret_ac3' = ret_ac3
                       [] r.ret = "True" /\ Vaciado(r.dom) ->
                            /\ Ac3Devuelve("False")
                            /\ arcs' = Front(arcs)
                       [] r.ret = "True" /\ ~Vaciado(r.dom) ->
                            /\ arcs' \in { Front(arcs) \o zs : zs \in Reencolados(x, y) }
                            /\ UNCHANGED << pc, ret, ret_ac3 >>
                       [] r.ret = "False" ->
                            /\ arcs' = Front(arcs)
                            /\ UNCHANGED << pc, ret, ret_ac3 >>
  /\ UNCHANGED << crucigrama, llamada, inferences, asignacion, alias, devuelto,
                  dom0, antes >>

(***************************************************************************)
(* inferencia (lines 202-217).                                             *)
(***************************************************************************)
\* the variable inferencia was called with
VarInferida ==
  IF llamada.metodo = "inferencia" THEN llamada.args[1] ELSE Last(stack).var

\* lines 206-207
InferenciaInicio ==
  /\ pc = "inferencia_inicio"
  /\ inferences' = Vacio
  /\ arcs' \in { [k \in 1 .. Len(xs) |-> << xs[k], VarInferida >>] :
                   xs \in Ordenes(vecinos(VarInferida)) }
  /\ antes' = dominios
  /\ pc' = "inferencia"
  /\ UNCHANGED << crucigrama, dominios, llamada, asignacion, stack, alias,
                  devuelto, ret, ret_ac3, dom0 >>

\* inferencia returns None or its mapping, to backtrack or to the caller
InferenciaDevuelve(valor) ==
  /\ devuelto' = valor
  /\ IF llamada.metodo = "inferencia"
       THEN pc' = "done" /\ ret' = valor
       ELSE pc' = "inferido" /\ ret' = ret

\* a record of the domain as it was before the revision
RegistrarAnterior(x, dom) ==
  [v \in DOMAIN inferences \cup {x} |->
     IF v = x THEN dominios[x] ELSE inferences[v]]

\* line 214: inferences[x] = self.dominios[x].copy()
Registrar(x, dom) ==
  [v \in DOMAIN inferences \cup {x} |-> IF v = x THEN dom ELSE inferences[v]]

\* one turn of the while loop of inferencia
Inferencia ==
  /\ pc = "inferencia"
  /\ IF arcs = <<>>
       THEN /\ InferenciaDevuelve("dict")
            /\ UNCHANGED << dominios, stack, arcs, inferences >>
       ELSE LET x == Last(arcs)[1]
                y == Last(arcs)[2]
            IN  \E r \in Revisar(dominios, x, y) :
                  /\ Mutar(x, r.dom)
                  /\ CASE r.ret = "IndexError" ->
                            /\ Lanza
                            /\ arcs' = Front(arcs)
                            /\ UNCHANGED << inferences, devuelto >>
                       [] r.ret = "True" /\ Vaciado(r.dom) ->
                            /\ InferenciaDevuelve("None")
                            /\ arcs' = Front(arcs)
                            /\ UNCHANGED inferences
                       [] r.ret = "True" /\ ~Vaciado(r.dom) ->
                            /\ inferences' = Registrar(x, r.dom)
                            /\ arcs' \in { Front(arcs) \o zs : zs \in Reencolados(x, y) }
                            /\ UNCHANGED << pc, ret, devuelto >>
                       [] r.ret = "False" ->
                            /\ arcs' = Front(arcs)
                            /\ UNCHANGED << pc, ret, devuelto, inferences >>
  /\ UNCHANGED << crucigrama, llamada, asignacion, alias, ret_ac3, dom0, antes >>

(***************************************************************************)
(* backtrack (lines 219-247).                                              *)
(***************************************************************************)
Marco(asig, var, valores) ==
  [asignacion |-> asig, var |-> var, valores |-> valores,
   inferences |-> Vacio, antes |-> Vacio]

\* a for loop that gives up after the first value that failed
AbandonarValores(f) ==
  [f EXCEPT !.valores = <<>>, !.inferences = Vacio, !.antes = Vacio]

\* the top frame moves on to its next value
SiguienteValor(f) ==
  [f EXCEPT !.valores = Tail(f.valores), !.inferences = Vacio, !.antes = Vacio]

Cima == Last(stack)

\* lines 223-228: a call of backtrack(asignacion)
Backtrack ==
  /\ pc = "backtrack"
  /\ IF asignacion_completa(asignacion)
       THEN /\ devuelto' = "asignacion"
            /\ pc' = "retorno"
            /\ stack' = stack
       ELSE /\ \E var \in seleccionar_variable_no_asignada(dominios, asignacion) :
                 \E valores \in ordenar_valores_dominio(dominios, var, asignacion) :
                   stack' = Append(stack, Marco(asignacion, var, valores))
            /\ pc' = "valor"
            /\ devuelto' = devuelto
  /\ UNCHANGED << crucigrama, dominios, llamada, arcs, inferences, asignacion,
                  alias, ret, ret_ac3, dom0, antes >>

\* lines 228-233 and 247: the next value of the for loop, or its end
ValorSiguiente ==
  /\ pc = "valor"
  /\ IF Cima.valores = <<>>
       THEN /\ stack' = Front(stack)
            /\ asignacion' = Cima.asignacion
            /\ devuelto' = "None"
            /\ pc' = "retorno"
            /\ ret' = ret
       ELSE LET nueva_asignacion ==
                  Append(Cima.asignacion, << Cima.var, Head(Cima.valores) >>)
            IN  \E c \in consistencia(nueva_asignacion) :
                  CASE c = "IndexError" ->
                         /\ Lanza
                         /\ UNCHANGED << stack, asignacion, devuelto >>
                    [] c = "False" ->
                         /\ stack' = [stack EXCEPT ![Len(stack)] = SiguienteValor(Cima)]
                         /\ UNCHANGED << pc, ret, asignacion, devuelto >>
                    [] c = "True" ->
                         /\ asignacion' = nueva_asignacion
                         /\ pc' = "inferencia_inicio"
                         /\ UNCHANGED << stack, ret, devuelto >>
  /\ UNCHANGED << crucigrama, dominios, llamada, arcs, inferences, alias,
                  ret_ac3, dom0, antes >>

\* the store with the domains of a mapping written into it
Escribir(D, m) == [v \in DOMAIN D |-> IF v \in DOMAIN m THEN m[v] ELSE D[v]]

\* lines 235-239: inferencia has returned to backtrack
Inferido ==
  /\ pc = "inferido"
  /\ IF devuelto = "None"
       THEN /\ stack' = [stack EXCEPT ![Len(stack)] = SiguienteValor(Cima)]
            /\ asignacion' = Cima.asignacion
            /\ pc' = "valor"
            /\ UNCHANGED << dominios, alias >>
       ELSE /\ dominios' = Escribir(dominios, inferences)
            /\ alias' = [v \in Variables |->
                           IF v \in DOMAIN inferences THEN Len(stack) ELSE alias[v]]
            /\ stack' = [stack EXCEPT ![Len(stack)].inferences = inferences,
                                      ![Len(stack)].antes = antes]
            /\ pc' = "backtrack"
            /\ asignacion' = asignacion
  /\ UNCHANGED << crucigrama, llamada, arcs, inferences, devuelto, ret, ret_ac3,
                  dom0, antes >>

\* lines 239-245: a call of backtrack has returned
Retorno ==
  /\ pc = "retorno"
  /\ IF stack = <<>>
       THEN /\ pc' = "done"
            /\ ret' = devuelto
            /\ UNCHANGED << dominios, alias, stack >>
       ELSE IF devuelto = "asignacion"
         THEN /\ stack' = Front(stack)
              /\ UNCHANGED << pc, ret, dominios, alias >>
         ELSE /\ dominios' = Escribir(dominios, Cima.inferences)
              /\ alias' = [v \in Variables |->
                             IF v \in DOMAIN Cima.inferences THEN 0 ELSE alias[v]]
              /\ stack' = [stack EXCEPT ![Len(stack)] = SiguienteValor(Cima)]
              /\ pc' = "valor"
              /\ ret' = ret
  /\ UNCHANGED << crucigrama, llamada, arcs, inferences, asignacion, devuelto,
                  ret_ac3, dom0, antes >>

(***************************************************************************)
(* Specifications.                                                         *)
(***************************************************************************)
\* a constructed solver on which solve() is called
Next ==
  \/ LlamarSolve
  \/ ConsistenciaNodo
  \/ Ac3Inicio
  \/ Ac3
  \/ Backtrack
  \/ ValorSiguiente
  \/ InferenciaInicio
  \/ Inferencia
  \/ Inferido
  \/ Retorno

Spec == Init /\ [][Next]_vars

\* a solver with any Domain Store on which one method is called
NextAlmacen ==
  \/ LlamarMetodo
  \/ ConsistenciaNodo
  \/ RevisarLlamada
  \/ Ac3Inicio
  \/ Ac3
  \/ Backtrack
  \/ ValorSiguiente
  \/ InferenciaInicio
  \/ Inferencia
  \/ Inferido
  \/ Retorno

SpecAlmacen == InitAlmacen /\ [][NextAlmacen]_vars

(***************************************************************************)
(* What the claims speak of.                                               *)
(***************************************************************************)
\* the letters of two words agree at an overlap (i, j)
Coinciden(palabra1, i, palabra2, j) ==
  /\ Len(palabra1) > i
  /\ Len(palabra2) > j
  /\ palabra1[i + 1] = palabra2[j + 1]

\* the complete assignments of vocabulary words that satisfy every length
\* and every overlap constraint
Soluciones ==
  { f \in [Variables -> crucigrama.words] :
      /\ \A v \in Variables : Len(f[v]) = v.longitud
      /\ \A v \in Variables : \A w \in vecinos(v) :
           Coinciden(f[v], Solapamiento(v, w)[1], f[w], Solapamiento(v, w)[2]) }

SolveTerminado == pc = "done" /\ llamada.metodo = "solve"

\* C1: an assignment returned by solve() has exactly the variables as keys,
\* one word each, every word of its variable's length, and every two
\* crossing variables agree at their overlap.
C1_SolucionValida ==
  (SolveTerminado /\ ret = "asignacion") =>
    /\ Claves(asignacion) = Variables
    /\ Len(asignacion) = Cardinality(Variables)
    /\ \A v \in Variables : Len(Valor(asignacion, v)) = v.longitud
    /\ \A v \in Variables : \A w \in vecinos(v) :
         Coinciden(Valor(asignacion, v), Solapamiento(v, w)[1],
                   Valor(asignacion, w), Solapamiento(v, w)[2])

\* solve() has returned an assignment for the ring, whose four slots cross
C1_Testigo ==
  SolveTerminado /\ ret = "asignacion" /\ Variables = Anillo

\* C2: solve() returns an assignment exactly when a satisfying complete
\* assignment exists, and None otherwise.
C2_EncuentraSolucion ==
  SolveTerminado =>
    /\ ret \in {"asignacion", "None"}
    /\ (ret = "asignacion") <=> (Soluciones # {})

\* solve() has returned an assignment for a ring that not every choice of
\* words solves
C2_Testigo ==
  /\ SolveTerminado
  /\ ret = "asignacion"
  /\ Variables = Anillo
  /\ Cardinality(Soluciones) = 2
  /\ Cardinality(crucigrama.words) = 2

\* C3: when a branch of backtrack has failed and its frame restores the
\* store, every variable of that branch's inferences has the domain it had
\* before inferencia ran for the candidate.
C3_Reversible ==
  [][ (pc = "retorno" /\ stack # <<>> /\ devuelto = "None") =>
        \A x \in DOMAIN Cima.inferences : dominios'[x] = Cima.antes[x] ]_vars

\* C4: when inferencia has reported a wipeout, the Domain Store is as it was
\* when inferencia was entered.
C4_WipeoutSinCambios ==
  ( /\ devuelto = "None"
    /\ \/ pc = "inferido"
       \/ pc = "done" /\ llamada.metodo = "inferencia" ) =>
    dominios = antes

Ac3Terminado == pc = "done" /\ llamada.metodo = "ac3"

\* every word of every domain has a partner in each neighbour's domain
ArcoConsistente(D) ==
  \A x \in Variables : \A y \in vecinos(x) :
    \A wx \in D[x] : \E wy \in D[y] :
      Coinciden(wx, Solapamiento(x, y)[1], wy, Solapamiento(x, y)[2])

\* C5: when ac3(), called with no initial arcs on any Domain Store, returns
\* True, every word of domain(x) has a word of domain(y) that agrees with it
\* at the overlap, for all neighbours x, y.
C5_ArcoConsistencia ==
  (Ac3Terminado /\ ret = "True") => ArcoConsistente(dominios)

\* ac3() has returned True on the chain after removing words from the
\* domain of the slot with two neighbours and from another domain
C5_Testigo ==
  /\ Ac3Terminado
  /\ ret = "True"
  /\ Variables = Cadena
  /\ \E x, z \in Variables :
       /\ x # z
       /\ Cardinality(vecinos(x)) = 2
       /\ dominios[x] # dom0[x]
       /\ dominios[z] # dom0[z]

\* C6: ac3() returns True only if no domain is empty when it finishes, and
\* False if some domain is.
C6_SinDominiosVacios ==
  Ac3Terminado =>
    /\ ret = "True" => \A v \in Variables : dominios[v] # {}
    /\ (\E v \in Variables : dominios[v] = {}) => ret = "False"

\* a turn of the loop of ac3 or of inferencia that revises the arc (x, y)
\* and leaves dominios[x] empty
VaciaDominio ==
  /\ pc \in {"ac3", "inferencia"}
  /\ arcs # <<>>
  /\ dominios[Last(arcs)[1]] # {}
  /\ dominios'[Last(arcs)[1]] = {}

\* the running ac3 or inferencia returns failure in this step, leaving the
\* other pending arcs unrevised
DevuelveFallo ==
  /\ arcs' = Front(arcs)
  /\ \A v \in Variables \ {Last(arcs)[1]} : dominios'[v] = dominios[v]
  /\ IF pc = "ac3"
       THEN IF llamada.metodo = "solve"
              THEN pc' = "backtrack" /\ ret_ac3' = "False"
              ELSE pc' = "done" /\ ret' = "False"
       ELSE /\ devuelto' = "None"
            /\ IF llamada.metodo = "inferencia"
                 THEN pc' = "done" /\ ret' = "None"
                 ELSE pc' = "inferido"

\* C7: a revision inside ac3 or inferencia that empties a domain makes that
\* call return failure (False, None) in the same step, before any other arc
\* is revised.
C7_DeteccionDeVacio == [][ VaciaDominio => DevuelveFallo ]_vars

\* ac3 has returned False on emptying a domain, with arcs still pending
C7_Testigo ==
  /\ Ac3Terminado
  /\ ret = "False"
  /\ arcs # <<>>
  /\ \E v \in Variables : dominios[v] = {} /\ dom0[v] # {}

\* C8: after consistencia_nodo the domain of every variable is exactly the
\* words it held before that have the variable's length.
C8_ConsistenciaDeNodo ==
  (pc = "done" /\ llamada.metodo = "consistencia_nodo") =>
    \A v \in Variables :
      /\ \A w \in dominios[v] : w \in dom0[v] /\ Len(w) = v.longitud
      /\ \A w \in dom0[v] : Len(w) = v.longitud => w \in dominios[v]

\* consistencia_nodo has removed a word from a domain and kept another
C8_Testigo ==
  /\ pc = "done"
  /\ llamada.metodo = "consistencia_nodo"
  /\ \E v \in Variables : dominios[v] # {} /\ dominios[v] # dom0[v]

\* C10: a call revisar(x, y) that returns changes nothing and returns False
\* when x and y do not overlap; otherwise it removes from domain(x) exactly
\* the words without a partner in domain(y), returns True iff it removed
\* one, and leaves every other domain as it was.  On a node-consistent
\* store, as arc work finds it, the call always returns; on a store with
\* words too short for the overlap it may end in an IndexError instead.
C10_Revisar ==
  (pc = "done" /\ llamada.metodo = "revisar") =>
    LET x == llamada.args[1]
        y == llamada.args[2]
        s == Solapamiento(x, y)
    IN  /\ dom0 = NodoConsistente(dom0) => ret # "IndexError"
        /\ ret # "IndexError" =>
             /\ \A v \in Variables \ {x} : dominios[v] = dom0[v]
             /\ s = None => dominios[x] = dom0[x] /\ ret = "False"
             /\ s # None =>
                  /\ dominios[x] =
                       { wx \in dom0[x] :
                           \E wy \in dom0[y] : Coinciden(wx, s[1], wy, s[2]) }
                  /\ (ret = "True") <=> (dominios[x] # dom0[x])
                  /\ ret \in {"True", "False"}

\* revisar(x, y) on two crossing slots has removed a word and kept another
C10_Testigo ==
  /\ pc = "done"
  /\ llamada.metodo = "revisar"
  /\ ret = "True"
  /\ dominios[llamada.args[1]] # {}

RECURSIVE Total(_, _)
\* the number of words in the domains of the variables S
Total(D, S) ==
  IF S = {} THEN 0
  ELSE LET v == CHOOSE v \in S : TRUE
       IN  Cardinality(D[v]) + Total(D, S \ {v})

\* the order in which the positions of a method follow each other
Rango ==
  CASE pc = "idle" -> 10
    [] pc \in {"consistencia_nodo", "revisar"} -> 9
    [] pc = "ac3_inicio" -> 8
    [] pc = "ac3" -> 7
    [] pc = "valor" -> 6
    [] pc = "inferencia_inicio" -> 5
    [] pc = "inferencia" -> 4
    [] pc = "inferido" -> 3
    [] pc = "backtrack" -> 2
    [] pc = "retorno" -> 1
    [] pc = "done" -> 0

\* what is left to do: per depth of the search the values still to try
\* (a call not yet made counts above any call made, a call that has
\* returned below), then the position, the words left in the store and the
\* arcs pending
Medida ==
  [k \in 1 .. Cardinality(Variables) |->
     IF k <= Len(stack) THEN Len(stack[k].valores) + 1
     ELSE IF pc \in {"retorno", "done"} THEN 0
     ELSE Cardinality(crucigrama.words) + 2]
    \o << Rango, Total(dominios, Variables), Len(arcs) >>

\* a comes before b in the lexicographic order of tuples of one length
Menor(a, b) ==
  \E k \in 1 .. Len(a) :
    /\ a[k] < b[k]
    /\ \A m \in 1 .. k - 1 : a[m] = b[m]

\* C9: solve() terminates: every step of ac3, inferencia and backtrack
\* lowers a measure that cannot fall forever, a run can stop only when
\* solve() has returned, and it returns an assignment or None.
C9_Termina ==
  /\ [][Menor(Medida', Medida)]_vars
  /\ [](pc # "done" => ENABLED <<Next>>_vars)
  /\ [](pc = "done" => ret \in {"asignacion", "None"})

\* solve() has returned on the chain after ac3 shrank the domain of the
\* slot with two neighbours, whose arcs were then queued again
C9_Testigo ==
  /\ SolveTerminado
  /\ Variables = Cadena
  /\ \E v \in Variables :
       /\ Cardinality(vecinos(v)) = 2
       /\ dominios[v] # {}
       /\ dominios[v] # NodoConsistente(dom0)[v]

\* one round of removing from every domain the words without a partner in
\* some neighbour's domain
Podar(D) ==
  [x \in DOMAIN D |->
     { wx \in D[x] :
         \A y \in vecinos(x) : \E wy \in D[y] :
           Coinciden(wx, Solapamiento(x, y)[1], wy, Solapamiento(x, y)[2]) }]

RECURSIVE MaxArcoConsistente(_)
\* the largest arc-consistent domains inside D
MaxArcoConsistente(D) ==
  IF Podar(D) = D THEN D ELSE MaxArcoConsistente(Podar(D))

\* the return value that goes with those domains: False when arc
\* consistency leaves empty a domain that held a word
RetornoDePuntoFijo(D) ==
  IF \E v \in DOMAIN D : MaxArcoConsistente(D)[v] = {} /\ D[v] # {}
    THEN "False" ELSE "True"

\* C11 as stated: whatever order ac3() takes its arcs in, it returns the
\* same value and leaves the same domains in the store, the largest
\* arc-consistent domains inside the starting ones.
C11_OrdenIndiferente ==
  (Ac3Terminado /\ ret # "IndexError") =>
    /\ ret = RetornoDePuntoFijo(dom0)
    /\ dominios = MaxArcoConsistente(dom0)

\* C11 as amended: every order in which ac3() returns gives the same return
\* value, and when that is True it leaves the largest arc-consistent
\* domains inside the starting ones; on a node-consistent store every order
\* returns.  (After False the store holds whatever had been removed when
\* the first domain emptied.)
C11_OrdenCorregido ==
  Ac3Terminado =>
    /\ dom0 = NodoConsistente(dom0) => ret # "IndexError"
    /\ ret # "IndexError" => ret = RetornoDePuntoFijo(dom0)
    /\ ret = "True" => dominios = MaxArcoConsistente(dom0)

\* ac3() has returned True on the chain where one round of removals does
\* not reach the arc-consistent domains: a removal made another necessary
C11_Testigo ==
  /\ Ac3Terminado
  /\ ret = "True"
  /\ Variables = Cadena
  /\ Podar(dom0) # MaxArcoConsistente(dom0)

\* the running call is consistencia_nodo, revisar or ac3
FaseDeConsistencia ==
  llamada.metodo \in {"consistencia_nodo", "revisar", "ac3"}

\* C12: every step of consistencia_nodo, revisar and ac3 leaves each domain
\* a subset of what it was before the step, so during those calls a domain
\* holds only words it held when the call began, and at every state each
\* domain is a subset of the vocabulary.
C12_Monotono ==
  /\ [][ FaseDeConsistencia' =>
           \A v \in Variables : dominios'[v] \subseteq dominios[v] ]_vars
  /\ [](FaseDeConsistencia =>
           \A v \in Variables : dominios[v] \subseteq dom0[v])
  /\ [](\A v \in Variables : dominios[v] \subseteq crucigrama.words)

\* ac3() is running with arcs pending and has made two domains smaller
C12_Testigo ==
  /\ pc = "ac3"
  /\ llamada.metodo = "ac3"
  /\ arcs # <<>>
  /\ \E v, w \in Variables :
       v # w /\ dominios[v] # dom0[v] /\ dominios[w] # dom0[w]

\* inferencia has returned its mapping, to the caller or to backtrack
InferenciaDevolvioMapa ==
  /\ devuelto = "dict"
  /\ IF llamada.metodo = "inferencia" THEN pc = "done" ELSE pc = "inferido"

\* C13: inferencia starts from exactly the arcs (x, var) of the neighbours x
\* of var, and the mapping it returns has as keys exactly the variables
\* whose domain it made smaller, each with the domain the store holds for it
\* at the return (so a call that removes nothing returns the empty mapping).
C13_MapaDeInferencia ==
  /\ [][ pc = "inferencia_inicio" =>
           /\ { arcs'[k] : k \in 1 .. Len(arcs') } =
                { << x, VarInferida >> : x \in vecinos(VarInferida) }
           /\ Len(arcs') = Cardinality(vecinos(VarInferida)) ]_vars
  /\ [](InferenciaDevolvioMapa =>
           /\ DOMAIN inferences = { v \in Variables : dominios[v] # antes[v] }
           /\ \A v \in DOMAIN inferences : inferences[v] = dominios[v])

\* inferencia, called on the chain, has returned a mapping with two
\* variables: one made smaller through the other
C13_Testigo ==
  /\ pc = "done"
  /\ llamada.metodo = "inferencia"
  /\ ret = "dict"
  /\ Cardinality(DOMAIN inferences) = 2

\* C14: the variable a call of backtrack selects is not in the assignment,
\* has the fewest words in its current domain among the unassigned
\* variables and the most neighbours among the unassigned variables with
\* that few words; selecting changes neither the store nor the assignment.
C14_SeleccionDeVariable ==
  [][ (pc = "backtrack" /\ ~asignacion_completa(asignacion)) =>
        LET var == Last(stack').var
            libres == Variables \ Claves(asignacion)
            minimas == { v \in libres :
                           \A u \in libres :
                             Cardinality(dominios[v]) <= Cardinality(dominios[u]) }
        IN  /\ var \in libres
            /\ var \in minimas
            /\ \A u \in minimas :
                 Cardinality(vecinos(var)) >= Cardinality(vecinos(u))
            /\ dominios' = dominios
            /\ asignacion' = asignacion ]_vars

\* on the chain with domains of one size the first call of backtrack has
\* selected the slot with two neighbours
C14_Testigo ==
  /\ pc = "valor"
  /\ Len(stack) = 1
  /\ Variables = Cadena
  /\ Cardinality(vecinos(Cima.var)) = 2
  /\ dominios[Cima.var] # {}
  /\ \A v \in Variables :
       Cardinality(dominios[v]) = Cardinality(dominios[Cima.var])

\* backtrack holds a candidate that passed consistencia: inferencia runs
\* for it, or backtrack is called with it
EnRama ==
  /\ stack # <<>>
  /\ pc \in {"inferencia_inicio", "inferencia", "inferido", "backtrack"}

\* C15: an assignment that backtrack passes to inferencia or recurses on
\* has words of its variables' lengths that agree at the overlap of every
\* two assigned neighbours, is its parent's assignment with one variable
\* added that the parent did not hold, and holds one word per variable.
C15_Compuerta ==
  EnRama =>
    /\ \A k \in 1 .. Len(asignacion) :
         Len(asignacion[k][2]) = asignacion[k][1].longitud
    /\ \A v \in Claves(asignacion) : \A w \in vecinos(v) \cap Claves(asignacion) :
         Coinciden(Valor(asignacion, v), Solapamiento(v, w)[1],
                   Valor(asignacion, w), Solapamiento(v, w)[2])
    /\ Len(asignacion) = Len(Cima.asignacion) + 1
    /\ SubSeq(asignacion, 1, Len(Cima.asignacion)) = Cima.asignacion
    /\ Last(asignacion)[1] = Cima.var
    /\ Cima.var \notin Claves(Cima.asignacion)
    /\ Cardinality(Claves(asignacion)) = Len(asignacion)
    /\ Len(Cima.asignacion) = Len(stack) - 1

\* on the chain backtrack is called with an assignment of two crossing
\* variables, from the call that added the second
C15_Testigo ==
  /\ pc = "backtrack"
  /\ Len(stack) = 2
  /\ Variables = Cadena
  /\ Len(asignacion) = 2

\* solve() has run consistencia_nodo and ac3 and is about to search
TrasAc3 ==
  /\ llamada.metodo = "solve"
  /\ pc = "backtrack"
  /\ stack = <<>>

\* C16: after consistencia_nodo and ac3() inside solve(), every word that
\* some satisfying complete assignment gives to a variable is still in that
\* variable's domain, and if there is such an assignment ac3() returned
\* True.
C16_PodaConservaSoluciones ==
  TrasAc3 =>
    /\ \A f \in Soluciones : \A v \in Variables : f[v] \in dominios[v]
    /\ Soluciones # {} => ret_ac3 = "True"

\* ac3() inside solve() has removed a word from a node-consistent domain of
\* a puzzle that has a solution
C16_Testigo ==
  /\ TrasAc3
  /\ Soluciones # {}
  /\ \E v \in Variables : dominios[v] # NodoConsistente(dom0)[v]

\* solve() is past ac3: backtrack and inferencia run
EnBusqueda ==
  /\ llamada.metodo = "solve"
  /\ pc \in {"backtrack", "valor", "inferencia_inicio", "inferencia",
              "inferido", "retorno"}

\* C17: inside solve() no step of backtrack or inferencia changes the
\* Domain Store, so the store solve() returns with is the one ac3 left, and
\* every call of inferencia returns a mapping, never a wipeout, and the
\* mapping is empty.
C17_InferenciaInerte ==
  /\ [][ EnBusqueda => dominios' = dominios ]_vars
  /\ []((llamada.metodo = "solve" /\ pc = "inferido") =>
           devuelto = "dict" /\ inferences = Vacio)

\* inside solve() inferencia has returned for a variable with a choice of
\* words, one of whose neighbours holds a word that does not agree with the
\* word just assigned
C17_Testigo ==
  /\ llamada.metodo = "solve"
  /\ pc = "inferido"
  /\ Cardinality(dominios[Cima.var]) > 1
  /\ \E x \in vecinos(Cima.var) : \E wx \in dominios[x] :
       ~ Coinciden(wx, Solapamiento(x, Cima.var)[1],
                   Last(asignacion)[2], Solapamiento(x, Cima.var)[2])

====
